---- MODULE Spec2Model ----
(***************************************************************************)
(* Table-cell writing in src/server.py: the cell locator                   *)
(* (_get_table_info, _get_cell_content_indexes), the single-cell writer    *)
(* (write_table_cell) and the bulk writer (write_table_bulk), run against  *)
(* a position-addressed document held by the Docs service.                 *)
(*                                                                         *)
(* A document is a sequence of one-position tokens.  Offset i of the       *)
(* document is token i+1 of the sequence.  "S" is the leading section      *)
(* break, "T" a table start, "R" a row start, "C" a cell start, "E" the    *)
(* table end, "N" a paragraph terminator; every other token is a text      *)
(* character.                                                              *)
(***************************************************************************)
EXTENDS Integers, Sequences, FiniteSets, TLC

VARIABLES
    document,    \* the live document held by the Docs service
    pc,          \* "idle", "submit" (batchUpdate pending) or "done"
    tool,        \* the handler that runs: "none", "cell", "bulk", "info"
    args,        \* the handler's arguments
    doc,         \* the document read by documents().get (the snapshot)
    located,     \* what the handler's cell lookups returned, in call order
    cell_data,   \* write_table_bulk's cell_data list (sorted once planned)
    requests,    \* the request list built by the handler
    result,      \* what call_tool returns to the caller
    table_info,  \* the value returned by _get_table_info
    gets,        \* number of documents().get calls made by the handler
    updates      \* number of documents().batchUpdate calls made

vars == <<document, pc, tool, args, doc, located, cell_data, requests,
          result, table_info, gets, updates>>

(***************************************************************************)
(* Bounds of the model.                                                    *)
(***************************************************************************)
MaxBody == 2     \* longest body of a single-paragraph cell in an initial document
MaxCells == 3    \* longest 'cells' list given to write_table_bulk

Structural == {"S", "T", "R", "C", "E"}

Min(S) == CHOOSE x \in S : \A y \in S : x <= y

Letters == <<"a", "b", "c", "d", "e", "f">>

\* The texts a caller writes: shorter than, as long as and longer than a body.
Texts == {<<"x">>, <<"y", "z", "w">>}

(***************************************************************************)
(* The initial documents: a section break, a paragraph, a 2 x 2 table and  *)
(* a closing paragraph.  A cell holds no content element, one paragraph    *)
(* (body of 0..MaxBody characters and its terminator) or two paragraphs.   *)
(***************************************************************************)
BodyOf(n) == [i \in 1..n |-> Letters[i]]

CellContents ==
    {<<>>} \cup {BodyOf(n) \o <<"N">> : n \in 0..MaxBody}
           \cup {<<"a", "N", "b", "N">>}

MakeDocument(k0, k1) ==
    <<"S", "p", "N", "T">>
        \o <<"R", "C">> \o k0 \o <<"C">> \o k1
        \o <<"R", "C">> \o k1 \o <<"C">> \o k0
        \o <<"E", "q", "N">>

(***************************************************************************)
(* The structure documents().get returns for a document, in the wire       *)
(* shape the handlers read.  body.content is a sequence of elements; the   *)
(* leading section break carries no startIndex; a table element carries a  *)
(* 'table' field with tableRows, each row with tableCells, each cell with  *)
(* its content elements (paragraphs), all with absolute half-open offsets. *)
(***************************************************************************)
FirstAt(d, p, S) ==
    LET Q == {q \in p..Len(d) : d[q] \in S}
    IN  IF Q = {} THEN Len(d) + 1 ELSE Min(Q)

RECURSIVE Paragraphs(_, _, _)
Paragraphs(d, p, q) ==
    IF p >= q THEN <<>>
    ELSE LET t == FirstAt(d, p, {"N"})
             e == IF t < q THEN t ELSE q - 1
         IN  <<[startIndex |-> p - 1, endIndex |-> e]>> \o Paragraphs(d, e + 1, q)

RECURSIVE TableCells(_, _, _)
TableCells(d, p, q) ==
    LET c == FirstAt(d, p, {"C"})
    IN  IF c >= q THEN <<>>
        ELSE LET nx == Min({FirstAt(d, c + 1, {"C"}), q})
             IN  <<[startIndex |-> c - 1, endIndex |-> nx - 1,
                    content |-> Paragraphs(d, c + 1, nx)]>>
                 \o TableCells(d, nx, q)

RECURSIVE TableRows(_, _, _)
TableRows(d, p, q) ==
    LET r == FirstAt(d, p, {"R"})
    IN  IF r >= q THEN <<>>
        ELSE LET nx == Min({FirstAt(d, r + 1, {"R"}), q})
             IN  <<[startIndex |-> r - 1, endIndex |-> nx - 1,
                    tableCells |-> TableCells(d, r + 1, nx)]>>
                 \o TableRows(d, nx, q)

RECURSIVE BodyContent(_, _)
BodyContent(d, p) ==
    IF p > Len(d) THEN <<>>
    ELSE IF d[p] = "S"
    THEN (IF p = 1 THEN <<[endIndex |-> p, sectionBreak |-> TRUE]>>
                   ELSE <<[startIndex |-> p - 1, endIndex |-> p, sectionBreak |-> TRUE]>>)
         \o BodyContent(d, p + 1)
    ELSE IF d[p] = "T"
    THEN LET e == Min({FirstAt(d, p, {"E"}), Len(d)})
             rows == TableRows(d, p + 1, e)
         IN  <<[startIndex |-> p - 1, endIndex |-> e,
                table |-> [rows |-> Len(rows),
                           columns |-> IF rows = <<>> THEN 0 ELSE Len(rows[1].tableCells),
                           tableRows |-> rows]]>>
             \o BodyContent(d, e + 1)
    ELSE LET t == Min({FirstAt(d, p, {"N"}), Len(d)})
         IN  <<[startIndex |-> p - 1, endIndex |-> t, paragraph |-> TRUE]>>
             \o BodyContent(d, t + 1)

Structure(d) == [body |-> [content |-> BodyContent(d, 1)]]

(***************************************************************************)
(* Python list indexing: list[i] for -len <= i < len, IndexError outside.  *)
(***************************************************************************)
PyIndexOk(list, i) == i >= 0 - Len(list) /\ i < Len(list)

PyIndex(list, i) == IF i >= 0 THEN list[i + 1] ELSE list[Len(list) + i + 1]

(***************************************************************************)
(* _get_table_info                                                         *)
(***************************************************************************)
NoTable == [none |-> TRUE]

TableInfoMatches(element, table_start_index) ==
    /\ "startIndex" \in DOMAIN element
    /\ element.startIndex = table_start_index
    /\ "table" \in DOMAIN element

RECURSIVE TableInfoFrom(_, _, _)
TableInfoFrom(content, i, table_start_index) ==
    IF i > Len(content) THEN NoTable
    ELSE IF TableInfoMatches(content[i], table_start_index) THEN content[i].table
    ELSE TableInfoFrom(content, i + 1, table_start_index)

GetTableInfo(d, table_start_index) ==
    TableInfoFrom(d.body.content, 1, table_start_index)

(***************************************************************************)
(* _get_cell_content_indexes.  The result is a range (start, end), the     *)
(* pair (None, None), or an IndexError raised by a list index.             *)
(***************************************************************************)
NonePair == [tag |-> "none"]
Raised == [tag |-> "raise"]
Range(s, e) == [tag |-> "range", start |-> s, end |-> e]

AnchorMatchesNearest(element, table_start_index) ==
    /\ "startIndex" \in DOMAIN element
    /\ element.startIndex <= table_start_index
    /\ table_start_index < element.endIndex
    /\ "table" \in DOMAIN element

AnchorMatches(element, table_start_index) ==
    /\ "startIndex" \in DOMAIN element
    /\ element.startIndex = table_start_index
    /\ "table" \in DOMAIN element

RowInRangeInclusive(row_index, table) == row_index <= Len(table.tableRows)

RowInRange(row_index, table) == row_index < Len(table.tableRows)

ColumnInRange(column_index, row) == column_index < Len(row.tableCells)

ContentRangeKeepEnd(cell_content) ==
    IF cell_content = <<>> THEN Raised
    ELSE Range(cell_content[1].startIndex, cell_content[Len(cell_content)].endIndex - 1)

\* (cell_content[0].startIndex, cell_content[-1].endIndex); indexing an empty
\* list raises IndexError.
ContentRange(cell_content) ==
    IF cell_content = <<>> THEN Raised
    ELSE Range(cell_content[1].startIndex, cell_content[Len(cell_content)].endIndex)

HasContentAlways(cell_content) == TRUE

\* 'if cell_content:'
HasContent(cell_content) == cell_content # <<>>

\* The range of one cell, or "fall" when the handler falls out of its ifs.
CellRange(cell) ==
    IF HasContent(cell.content) THEN ContentRange(cell.content)
    ELSE [tag |-> "fall"]

TableLookup(table, row_index, column_index) ==
    IF ~RowInRange(row_index, table) THEN [tag |-> "fall"]
    ELSE IF ~PyIndexOk(table.tableRows, row_index) THEN Raised
    ELSE LET row == PyIndex(table.tableRows, row_index)
         IN  IF ~ColumnInRange(column_index, row) THEN [tag |-> "fall"]
             ELSE IF ~PyIndexOk(row.tableCells, column_index) THEN Raised
             ELSE CellRange(PyIndex(row.tableCells, column_index))

RECURSIVE CellIndexesFrom(_, _, _, _, _)
CellIndexesFrom(content, i, table_start_index, row_index, column_index) ==
    IF i > Len(content) THEN NonePair
    ELSE LET r == IF AnchorMatches(content[i], table_start_index)
                  THEN TableLookup(content[i].table, row_index, column_index)
                  ELSE [tag |-> "fall"]
         IN  IF r.tag = "fall"
             THEN CellIndexesFrom(content, i + 1, table_start_index, row_index, column_index)
             ELSE r

GetCellContentIndexes(d, table_start_index, row_index, column_index) ==
    CellIndexesFrom(d.body.content, 1, table_start_index, row_index, column_index)

(***************************************************************************)
(* The request groups.                                                     *)
(***************************************************************************)
DeleteContentRange(s, e) ==
    [kind |-> "deleteContentRange", startIndex |-> s, endIndex |-> e]

InsertText(i, text) == [kind |-> "insertText", index |-> i, text |-> text]

\* Variant: the body is deleted whatever replace_existing says.
CellRequestsAlwaysDelete(start_idx, end_idx, text, replace_existing) ==
    IF end_idx > start_idx + 1
    THEN <<DeleteContentRange(start_idx, end_idx - 1), InsertText(start_idx, text)>>
    ELSE <<InsertText(start_idx, text)>>

\* write_table_cell: the requests for the located cell.
CellRequests(start_idx, end_idx, text, replace_existing) ==
    IF replace_existing /\ end_idx > start_idx + 1
    THEN <<DeleteContentRange(start_idx, end_idx - 1), InsertText(start_idx, text)>>
    ELSE <<InsertText(start_idx, text)>>

BulkCellRequestsWholeRange(cell, replace_existing) ==
    (IF replace_existing /\ cell.end_idx > cell.start_idx + 1
     THEN <<DeleteContentRange(cell.start_idx, cell.end_idx)>>
     ELSE <<>>)
    \o <<InsertText(cell.start_idx, cell.text)>>

\* write_table_bulk: the requests of one entry of cell_data.
BulkCellRequests(cell, replace_existing) ==
    (IF replace_existing /\ cell.end_idx > cell.start_idx + 1
     THEN <<DeleteContentRange(cell.start_idx, cell.end_idx - 1)>>
     ELSE <<>>)
    \o <<InsertText(cell.start_idx, cell.text)>>

RECURSIVE BulkRequests(_, _)
BulkRequests(data, replace_existing) ==
    IF data = <<>> THEN <<>>
    ELSE BulkCellRequests(Head(data), replace_existing)
         \o BulkRequests(Tail(data), replace_existing)

\* write_table_bulk: the lookups of the requested cells, in list order.
Lookups(d, table_start_index, cells) ==
    [i \in 1..Len(cells) |->
        GetCellContentIndexes(d, table_start_index, cells[i].row, cells[i].column)]

\* write_table_bulk: cell_data, one entry per cell whose start_idx is not None.
RECURSIVE CollectCellData(_, _)
CollectCellData(cells, found) ==
    IF cells = <<>> THEN <<>>
    ELSE (IF Head(found).tag = "range"
          THEN <<[row |-> Head(cells).row, column |-> Head(cells).column,
                  text |-> Head(cells).text,
                  start_idx |-> Head(found).start, end_idx |-> Head(found).end]>>
          ELSE <<>>)
         \o CollectCellData(Tail(cells), Tail(found))

\* list.sort(key=start_idx, reverse=True): stable, descending.
InsertDescending(sorted, x) ==
    LET k == Cardinality({i \in 1..Len(sorted) : sorted[i].start_idx >= x.start_idx})
    IN  SubSeq(sorted, 1, k) \o <<x>> \o SubSeq(sorted, k + 1, Len(sorted))

InsertAscending(sorted, x) ==
    LET k == Cardinality({i \in 1..Len(sorted) : sorted[i].start_idx <= x.start_idx})
    IN  SubSeq(sorted, 1, k) \o <<x>> \o SubSeq(sorted, k + 1, Len(sorted))

RECURSIVE SortAscending(_)
SortAscending(data) ==
    IF data = <<>> THEN <<>>
    ELSE InsertAscending(SortAscending(SubSeq(data, 1, Len(data) - 1)), data[Len(data)])

NoSort(data) == data

RECURSIVE SortDescending(_)
SortDescending(data) ==
    IF data = <<>> THEN <<>>
    ELSE InsertDescending(SortDescending(SubSeq(data, 1, Len(data) - 1)), data[Len(data)])

SomethingMissing(cells, data) == Len(data) < Len(cells) \/ data = <<>>

\* 'if not cell_data: return error'
NothingLocated(cells, data) == data = <<>>

(***************************************************************************)
(* documents().batchUpdate: the service applies the requests in list       *)
(* order, each against the document the earlier ones produced, all or      *)
(* nothing.  A request is refused when its indexes lie outside the body,   *)
(* when a delete covers a structural position or the last terminator of a  *)
(* cell or of the body, or when an insert does not fall in a paragraph.    *)
(***************************************************************************)
FinalTerminator(d, q) ==
    d[q] = "N" /\ (q = Len(d) \/ d[q + 1] \in Structural)

RequestValid(d, r) ==
    IF r.kind = "deleteContentRange"
    THEN /\ 1 <= r.startIndex
         /\ r.startIndex < r.endIndex
         /\ r.endIndex <= Len(d)
         /\ \A q \in (r.startIndex + 1)..r.endIndex :
                d[q] \notin Structural /\ ~FinalTerminator(d, q)
    ELSE /\ 1 <= r.index
         /\ r.index < Len(d)
         /\ d[r.index + 1] \notin Structural

ApplyRequest(d, r) ==
    IF r.kind = "deleteContentRange"
    THEN SubSeq(d, 1, r.startIndex) \o SubSeq(d, r.endIndex + 1, Len(d))
    ELSE SubSeq(d, 1, r.index) \o r.text \o SubSeq(d, r.index + 1, Len(d))

RECURSIVE ApplyAll(_, _)
ApplyAll(d, reqs) ==
    IF reqs = <<>> THEN [ok |-> TRUE, document |-> d]
    ELSE IF ~RequestValid(d, Head(reqs)) THEN [ok |-> FALSE, document |-> d]
    ELSE ApplyAll(ApplyRequest(d, Head(reqs)), Tail(reqs))
TableStartOf(d) == FirstAt(d, 1, {"T"}) - 1

\* Arguments of write_table_cell: anchors before, at and inside the table and
\* at the closing paragraph; indexes inside the grid, past it and negative.
AnchorInputs(d) == (0..(TableStartOf(d) + 3)) \cup {Len(d) - 2}
RowInputs == -3..2
ColumnInputs == -3..2

\* Arguments of write_table_bulk: lists of up to MaxCells cells of the grid, in
\* every order and with repeats, and lists of one or two cells that may name
\* the row past the grid; the texts of a list alternate between the two
\* texts; the anchor is the table's, or (for lists of at most one cell) the
\* offset after it.
OtherText(t) == CHOOSE u \in Texts : u # t
GridPositions == (0..1) \X (0..1)
BulkPositions == GridPositions \cup {<<2, 0>>}
BulkCellListsOf(n, positions) ==
    {[i \in 1..n |-> [row |-> pos[i][1], column |-> pos[i][2],
                      text |-> IF i % 2 = 1 THEN t ELSE OtherText(t)]] :
        pos \in [1..n -> positions], t \in Texts}
BulkCellLists ==
    UNION {BulkCellListsOf(n, GridPositions) : n \in 0..MaxCells}
    \cup BulkCellListsOf(1, BulkPositions) \cup BulkCellListsOf(2, BulkPositions)
BulkInputs(d) ==
    {[table_start_index |-> TableStartOf(d), cells |-> cells, replace_existing |-> rep] :
        cells \in BulkCellLists, rep \in BOOLEAN}
    \cup
    {[table_start_index |-> TableStartOf(d) + 1, cells |-> cells, replace_existing |-> rep] :
        cells \in BulkCellListsOf(0, BulkPositions) \cup BulkCellListsOf(1, BulkPositions), rep \in BOOLEAN}


(***************************************************************************)
(* The handlers, up to their batchUpdate call.                             *)
(***************************************************************************)
ErrCellNotFound == "Error: Could not find the specified table cell"
ErrNoCells == "Error: Could not find any of the specified table cells"
ErrException == "Error: list index out of range"
ErrApi == "Google API error"
OkCell == "Wrote text to cell"
OkBulk == "Wrote text to cells in a single batch operation"

\* write_table_cell: [result, found, requests]; result "" while the call goes
\* on, found the lookups made.
WriteTableCellPlan(d, a) ==
    LET r == GetCellContentIndexes(d, a.table_start_index, a.row_index, a.column_index)
    IN  IF r.tag = "raise"
        THEN [result |-> ErrException, found |-> <<r>>, requests |-> <<>>]
        ELSE IF r.tag = "none"
        THEN [result |-> ErrCellNotFound, found |-> <<r>>, requests |-> <<>>]
        ELSE [result |-> "", found |-> <<r>>,
              requests |-> CellRequests(r.start, r.end, a.text, a.replace_existing)]

\* write_table_bulk: [result, found, cell_data, requests].
WriteTableBulkPlan(d, a) ==
    LET found == Lookups(d, a.table_start_index, a.cells)
        data == CollectCellData(a.cells, found)
        sorted == SortDescending(data)
    IN  IF \E i \in 1..Len(found) : found[i].tag = "raise"
        THEN [result |-> ErrException, found |-> found, cell_data |-> <<>>,
              requests |-> <<>>]
        ELSE IF NothingLocated(a.cells, data)
        THEN [result |-> ErrNoCells, found |-> found, cell_data |-> data,
              requests |-> <<>>]
        ELSE [result |-> "", found |-> found, cell_data |-> sorted,
              requests |-> BulkRequests(sorted, a.replace_existing)]

Init ==
    /\ \E k0 \in CellContents, k1 \in CellContents : document = MakeDocument(k0, k1)
    /\ pc = "idle"
    /\ tool = "none"
    /\ args = <<>>
    /\ doc = <<>>
    /\ located = <<>>
    /\ cell_data = <<>>
    /\ requests = <<>>
    /\ result = ""
    /\ table_info = NoTable
    /\ gets = 0
    /\ updates = 0

\* write_table_cell from its documents().get to its batchUpdate call.
WriteTableCell ==
    /\ pc = "idle"
    /\ \E tsi \in AnchorInputs(document), row \in RowInputs, col \in ColumnInputs,
          text \in Texts, rep \in BOOLEAN :
        LET a == [table_start_index |-> tsi, row_index |-> row, column_index |-> col,
                  text |-> text, replace_existing |-> rep]
            plan == WriteTableCellPlan(Structure(document), a)
        IN  /\ tool' = "cell"
            /\ args' = a
            /\ doc' = document
            /\ gets' = gets + 1
            /\ located' = plan.found
            /\ requests' = plan.requests
            /\ result' = plan.result
            /\ pc' = IF plan.result = "" THEN "submit" ELSE "done"
    /\ UNCHANGED <<document, cell_data, table_info, updates>>

\* write_table_bulk from its documents().get to its batchUpdate call.
WriteTableBulk ==
    /\ pc = "idle"
    /\ \E a \in BulkInputs(document) :
        LET plan == WriteTableBulkPlan(Structure(document), a)
        IN  /\ tool' = "bulk"
            /\ args' = a
            /\ doc' = document
            /\ gets' = gets + 1
            /\ located' = plan.found
            /\ cell_data' = plan.cell_data
            /\ requests' = plan.requests
            /\ result' = plan.result
            /\ pc' = IF plan.result = "" THEN "submit" ELSE "done"
    /\ UNCHANGED <<document, table_info, updates>>

\* Variant: the handler goes back to its batchUpdate call after an HttpError.
RetryAfterApiError == "submit"

\* call_tool returns the error text: the tool call is over.
AfterApiError == "done"

\* Variant: write_table_bulk plans again from the document as it is when it
\* submits.
ReplannedRequests(reqs, live) ==
    IF tool = "bulk" THEN WriteTableBulkPlan(Structure(live), args).requests ELSE reqs

\* body={'requests': requests}: the list as planned.
SubmittedRequests(reqs, live) == reqs

\* The batchUpdate of either handler is executed by the service.
BatchUpdate ==
    /\ pc = "submit"
    /\ LET out == ApplyAll(document, SubmittedRequests(requests, document))
       IN  /\ document' = out.document
           /\ result' = IF ~out.ok THEN ErrApi
                        ELSE IF tool = "cell" THEN OkCell ELSE OkBulk
           /\ pc' = IF ~out.ok THEN AfterApiError ELSE "done"
    /\ updates' = updates + 1
    /\ UNCHANGED <<tool, args, doc, located, cell_data, requests, table_info, gets>>

\* The batchUpdate fails in the service or on the way (HttpError).
BatchUpdateFails ==
    /\ pc = "submit"
    /\ result' = ErrApi
    /\ updates' = updates + 1
    /\ pc' = AfterApiError
    /\ UNCHANGED <<document, tool, args, doc, located, cell_data, requests,
                   table_info, gets>>

\* _get_table_info applied to a read of the document.
TableInfo ==
    /\ pc = "idle"
    /\ \E tsi \in 0..(Len(document) - 1) :
        /\ args' = [table_start_index |-> tsi]
        /\ table_info' = GetTableInfo(Structure(document), tsi)
    /\ tool' = "info"
    /\ doc' = document
    /\ pc' = "done"
    /\ UNCHANGED <<document, located, cell_data, requests, result, gets, updates>>

Next ==
    \/ WriteTableCell
    \/ WriteTableBulk
    \/ BatchUpdate
    \/ BatchUpdateFails
    \/ TableInfo

Spec == Init /\ [][Next]_vars

(***************************************************************************)
(* Reading a document directly from its tokens, for the properties below.  *)
(***************************************************************************)
TokenPositions(d, tok) == {q \in 1..Len(d) : d[q] = tok}

NthOf(S, n) == CHOOSE x \in S : Cardinality({y \in S : y < x}) = n - 1

NumRows(d) == Cardinality(TokenPositions(d, "R"))

RowStart(d, r) == NthOf(TokenPositions(d, "R"), r + 1)

RowCellPositions(d, r) ==
    LET rs == RowStart(d, r)
        re == FirstAt(d, rs + 1, {"R", "E"})
    IN  {q \in TokenPositions(d, "C") : q > rs /\ q < re}

NumCells(d, r) == Cardinality(RowCellPositions(d, r))

InGrid(d, r, c) == r >= 0 /\ r < NumRows(d) /\ c >= 0 /\ c < NumCells(d, r)

\* Position of the "C" token of cell (r, c) and of the structural token after it.
CellStart(d, r, c) == NthOf(RowCellPositions(d, r), c + 1)

CellEnd(d, r, c) == FirstAt(d, CellStart(d, r, c) + 1, Structural)

CellTokens(d, r, c) ==
    LET p == CellStart(d, r, c)
    IN  SubSeq(d, p + 1, FirstAt(d, p + 1, Structural) - 1)

IsTableStart(d, i) == i >= 0 /\ i < Len(d) /\ d[i + 1] = "T"

InsideTable(d, i) ==
    i > TableStartOf(d) /\ i < FirstAt(d, 1, {"E"})

\* The cells the running handler looked up, in call order (located[k] is the
\* result of the k-th lookup).
Asked ==
    IF tool = "cell" THEN <<[row |-> args.row_index, column |-> args.column_index,
                             text |-> args.text]>>
    ELSE IF tool = "bulk" THEN args.cells
    ELSE <<>>

Writing == tool \in {"cell", "bulk"} /\ pc # "idle"

Found(k) == located[k].tag = "range"

ReqStart(r) == IF r.kind = "deleteContentRange" THEN r.startIndex ELSE r.index

Overlap(a, b) == a.start < b.end /\ b.start < a.end

\* The located targets are pairwise disjoint and have distinct starts.
DisjointTargets ==
    \A a, b \in 1..Len(located) :
        (a # b /\ Found(a) /\ Found(b))
            => located[a].start # located[b].start /\ ~Overlap(located[a], located[b])

TargetsWritten(d) ==
    \A k \in 1..Len(located) :
        Found(k) =>
            CellTokens(d, Asked[k].row, Asked[k].column)
                = Asked[k].text \o <<doc[located[k].end]>>

(***************************************************************************)
(* C1.  write_table_bulk with replace_existing = true, the located cells   *)
(* pairwise disjoint with distinct starts: the service accepts the         *)
(* requests, and after applying them in list order every target cell       *)
(* holds exactly its requested text followed by the terminator it had in   *)
(* the snapshot.                                                           *)
(***************************************************************************)
C1_BulkReplaceWritesEveryTarget ==
    (tool = "bulk" /\ pc # "idle" /\ args.replace_existing /\ DisjointTargets
        /\ requests # <<>>)
    => LET out == ApplyAll(doc, requests)
       IN  /\ out.ok
           /\ TargetsWritten(out.document)
           /\ (pc = "done" /\ result = OkBulk) => TargetsWritten(document)

C1_Witness ==
    /\ tool = "bulk" /\ pc = "done" /\ result = OkBulk
    /\ args.replace_existing /\ DisjointTargets
    /\ Len(located) = 3
    /\ \A k \in 1..3 : Found(k)
    /\ located[1].start < located[2].start
    /\ \E k \in 1..3 : Len(Asked[k].text) > located[k].end - located[k].start - 1
    /\ \E k \in 1..3 : Len(Asked[k].text) < located[k].end - located[k].start - 1
    /\ TargetsWritten(document)
    /\ document # doc

(***************************************************************************)
(* C2.  In the request list of write_table_bulk the groups of the located  *)
(* cells stand in strictly descending order of snapshot start offset:      *)
(* for located cells with starts s1 > s2, both have requests and every     *)
(* request of the s1 cell precedes every request of the s2 cell.           *)
(***************************************************************************)
C2_GroupsDescending ==
    (tool = "bulk" /\ pc # "idle" /\ result # ErrException)
    => \A a, b \in 1..Len(located) :
        (Found(a) /\ Found(b) /\ located[a].start > located[b].start)
        => /\ \E i \in 1..Len(requests) : ReqStart(requests[i]) = located[a].start
           /\ \E j \in 1..Len(requests) : ReqStart(requests[j]) = located[b].start
           /\ \A i, j \in 1..Len(requests) :
                (/\ ReqStart(requests[i]) = located[a].start
                 /\ ReqStart(requests[j]) = located[b].start) => i < j

\* Three cells given middle, highest, lowest (as 30, 50, 10 would be).
C2_Witness ==
    /\ tool = "bulk" /\ pc = "submit"
    /\ Len(located) = 3
    /\ \A k \in 1..3 : Found(k)
    /\ located[3].start < located[1].start
    /\ located[1].start < located[2].start
    /\ ReqStart(requests[1]) = located[2].start
    /\ ReqStart(requests[Len(requests)]) = located[3].start

(***************************************************************************)
(* C3.  Every deleteContentRange emitted by write_table_cell or            *)
(* write_table_bulk is that of a located cell [s, e): its range is         *)
(* [s, e-1), the request after it is the insertText of that cell at s, and *)
(* no located cell's terminator position e-1 lies in the deleted range.    *)
(***************************************************************************)
C3_DeleteKeepsTerminator ==
    Writing
    => \A i \in 1..Len(requests) :
        requests[i].kind = "deleteContentRange"
        => /\ \E k \in 1..Len(located) :
                /\ Found(k)
                /\ requests[i].startIndex = located[k].start
                /\ requests[i].endIndex = located[k].end - 1
                /\ i < Len(requests)
                /\ requests[i + 1] = InsertText(located[k].start, Asked[k].text)
           /\ \A k \in 1..Len(located) :
                Found(k) => ~(/\ requests[i].startIndex <= located[k].end - 1
                              /\ located[k].end - 1 < requests[i].endIndex)

C3_Witness ==
    /\ tool = "bulk" /\ pc = "done" /\ result = OkBulk
    /\ \E i \in 1..Len(requests) :
        /\ requests[i].kind = "deleteContentRange"
        /\ requests[i].endIndex > requests[i].startIndex + 1
        /\ doc[requests[i].endIndex + 1] = "N"
        /\ document[requests[i].startIndex + Len(requests[i + 1].text) + 1] = "N"

OverlappingTargets ==
    \E a, b \in 1..Len(located) :
        a # b /\ Found(a) /\ Found(b) /\ Overlap(located[a], located[b])

(***************************************************************************)
(* C4.  Two targets of one write_table_bulk call whose snapshot ranges     *)
(* overlap (s1 < e2 and s2 < e1): the call ends with an error, with no     *)
(* request list and no batchUpdate.                                        *)
(***************************************************************************)
C4_OverlapRejected ==
    (tool = "bulk" /\ pc # "idle" /\ OverlappingTargets)
    => /\ pc = "done"
       /\ result \notin {"", OkBulk}
       /\ requests = <<>>
       /\ updates = 0

SharedStart(s) ==
    \E a, b \in 1..Len(located) :
        a # b /\ Found(a) /\ Found(b) /\ located[a].start = s /\ located[b].start = s

(***************************************************************************)
(* C5.  Two targets of one write_table_bulk call that share a start        *)
(* offset (the same cell listed twice): the call is rejected, and no       *)
(* request is emitted at the shared offset.                                *)
(***************************************************************************)
C5_DuplicateStartRejected ==
    (tool = "bulk" /\ pc # "idle")
    => \A s \in 0..Len(doc) :
        SharedStart(s)
        => /\ pc = "done"
           /\ result # OkBulk
           /\ \A i \in 1..Len(requests) : ReqStart(requests[i]) # s

SomeNotFound == \E k \in 1..Len(located) : located[k].tag = "none"

FoundStarts == {located[k].start : k \in {j \in 1..Len(located) : Found(j)}}

AddressedRow(d, r) == IF r >= 0 THEN r ELSE NumRows(d) + r

PastGrid(d, r, c) ==
    \/ r >= NumRows(d)
    \/ /\ AddressedRow(d, r) >= 0
       /\ AddressedRow(d, r) < NumRows(d)
       /\ c >= NumCells(d, AddressedRow(d, r))

(***************************************************************************)
(* C7.  _get_cell_content_indexes on the anchored table returns            *)
(* (None, None), and raises nothing, when row_index >= the number of rows  *)
(* or column_index >= the number of cells of the addressed row.            *)
(***************************************************************************)
C7_PastGridIsNone ==
    (Writing /\ IsTableStart(doc, args.table_start_index))
    => \A k \in 1..Len(located) :
        PastGrid(doc, Asked[k].row, Asked[k].column)
        => /\ located[k] = NonePair
           /\ tool = "cell" => (result = ErrCellNotFound /\ updates = 0)

C7_Witness ==
    /\ tool = "cell" /\ pc = "done"
    /\ IsTableStart(doc, args.table_start_index)
    /\ args.row_index = NumRows(doc)
    /\ args.column_index = 0
    /\ located = <<NonePair>>
    /\ result = ErrCellNotFound

(***************************************************************************)
(* C8.  Lookup is by exact anchor: with a table_start_index that is not    *)
(* the startIndex of a table element (an offset inside a table, the start  *)
(* of a paragraph, offset 0), _get_table_info returns None and             *)
(* _get_cell_content_indexes returns (None, None); with the table's own    *)
(* start, _get_table_info returns that table.                              *)
(***************************************************************************)
C8_ExactAnchorOnly ==
    /\ (tool = "info" /\ ~IsTableStart(doc, args.table_start_index))
        => table_info = NoTable
    /\ (tool = "info" /\ IsTableStart(doc, args.table_start_index))
        => (table_info # NoTable /\ table_info.rows = NumRows(doc))
    /\ (Writing /\ ~IsTableStart(doc, args.table_start_index))
        => \A k \in 1..Len(located) : located[k] = NonePair

C8_Witness ==
    /\ tool = "cell" /\ pc = "done"
    /\ InsideTable(doc, args.table_start_index)
    /\ InGrid(doc, args.row_index, args.column_index)
    /\ CellTokens(doc, args.row_index, args.column_index) # <<>>
    /\ located = <<NonePair>>

(***************************************************************************)
(* C9.  For a cell of the grid with content, _get_cell_content_indexes on  *)
(* the anchored table returns (start of the first content element, end of  *)
(* the last content element): the whole content of the cell, its trailing  *)
(* terminator position included.                                           *)
(***************************************************************************)
C9_RawContentRange ==
    (Writing /\ IsTableStart(doc, args.table_start_index))
    => \A k \in 1..Len(located) :
        (/\ InGrid(doc, Asked[k].row, Asked[k].column)
         /\ CellTokens(doc, Asked[k].row, Asked[k].column) # <<>>)
        => /\ located[k] = Range(CellStart(doc, Asked[k].row, Asked[k].column),
                                 CellEnd(doc, Asked[k].row, Asked[k].column) - 1)
           /\ doc[located[k].end] = "N"

\* A cell of two paragraphs: the end is the second paragraph's.
C9_Witness ==
    /\ tool = "cell" /\ pc = "submit"
    /\ IsTableStart(doc, args.table_start_index)
    /\ InGrid(doc, args.row_index, args.column_index)
    /\ Cardinality({q \in 1..Len(CellTokens(doc, args.row_index, args.column_index)) :
            CellTokens(doc, args.row_index, args.column_index)[q] = "N"}) = 2
    /\ located[1].tag = "range"
    /\ located[1].end - located[1].start
        = Len(CellTokens(doc, args.row_index, args.column_index))

(***************************************************************************)
(* C10.  A cell of the grid without content elements is not found:         *)
(* _get_cell_content_indexes returns (None, None), and write_table_cell    *)
(* returns its 'Could not find the specified table cell' error with no     *)
(* request built and no batchUpdate.                                       *)
(***************************************************************************)
C10_EmptyCellNotFound ==
    (Writing /\ IsTableStart(doc, args.table_start_index))
    => \A k \in 1..Len(located) :
        (/\ InGrid(doc, Asked[k].row, Asked[k].column)
         /\ CellTokens(doc, Asked[k].row, Asked[k].column) = <<>>)
        => /\ located[k] = NonePair
           /\ tool = "cell"
                => (/\ pc = "done"
                    /\ result = ErrCellNotFound
                    /\ requests = <<>>
                    /\ updates = 0
                    /\ document = doc)

C10_Witness ==
    /\ tool = "cell" /\ pc = "done"
    /\ IsTableStart(doc, args.table_start_index)
    /\ InGrid(doc, args.row_index, args.column_index)
    /\ CellTokens(doc, args.row_index, args.column_index) = <<>>
    /\ located = <<NonePair>>
    /\ result = ErrCellNotFound
    /\ updates = 0

(***************************************************************************)
(* _parse_a1_range.  A text is a sequence of one-character strings; the    *)
(* result is the GridRange dict (a function from its keys, holding only    *)
(* the keys the code sets) or the ValueError.                              *)
(***************************************************************************)
UpperCase == <<"A", "B", "C", "D", "E", "F", "G", "H", "I", "J", "K", "L", "M",
               "N", "O", "P", "Q", "R", "S", "T", "U", "V", "W", "X", "Y", "Z">>

LowerCase == <<"a", "b", "c", "d", "e", "f", "g", "h", "i", "j", "k", "l", "m",
               "n", "o", "p", "q", "r", "s", "t", "u", "v", "w", "x", "y", "z">>

Digits == <<"0", "1", "2", "3", "4", "5", "6", "7", "8", "9">>

IndexIn(seq, c) == CHOOSE i \in 1..Len(seq) : seq[i] = c

ElementsOf(seq) == {seq[i] : i \in 1..Len(seq)}

\* str.upper(), character by character
UpperChar(c) == IF c \in ElementsOf(LowerCase) THEN UpperCase[IndexIn(LowerCase, c)] ELSE c

Upper(str) == [i \in 1..Len(str) |-> UpperChar(str[i])]

\* range_str.split('!')[1]: the piece between the first '!' and the next one
AfterSheetName(str) ==
    LET first == FirstAt(str, 1, {"!"})
        next == FirstAt(str, first + 1, {"!"})
    IN  SubSeq(str, first + 1, next - 1)

\* 'if "!" in range_str: range_str = range_str.split("!")[1]'
StripSheetName(str) ==
    IF "!" \in ElementsOf(str) THEN AfterSheetName(str) ELSE str

\* End of the longest run of characters of a class that starts at position p.
SpanEnd(str, p, class) ==
    LET Q == {q \in p..Len(str) : str[q] \notin class}
    IN  IF Q = {} THEN Len(str) + 1 ELSE Min(Q)

\* re.match(r'^([A-Z]*)(\d*):?([A-Z]*)(\d*)$', str): the four groups, or no
\* match.  The classes are disjoint, so the greedy scan is the match.
MatchA1(str) ==
    LET a == SpanEnd(str, 1, ElementsOf(UpperCase))
        b == SpanEnd(str, a, ElementsOf(Digits))
        c == IF b <= Len(str) /\ str[b] = ":" THEN b + 1 ELSE b
        d == SpanEnd(str, c, ElementsOf(UpperCase))
        e == SpanEnd(str, d, ElementsOf(Digits))
    IN  IF e = Len(str) + 1
        THEN [matched |-> TRUE,
              start_col |-> SubSeq(str, 1, a - 1), start_row |-> SubSeq(str, a, b - 1),
              end_col |-> SubSeq(str, c, d - 1), end_row |-> SubSeq(str, d, e - 1)]
        ELSE [matched |-> FALSE]

\* col_to_index: result = result * 26 + (ord(char) - ord('A') + 1); result - 1
\* Variant: ordinary positional base 26 with A as the digit zero.
RECURSIVE PositionalValue(_)
PositionalValue(col) ==
    IF col = <<>> THEN 0
    ELSE PositionalValue(SubSeq(col, 1, Len(col) - 1)) * 26
         + (IndexIn(UpperCase, col[Len(col)]) - 1)

ColumnNumberPositional(col) == PositionalValue(col) + 1

RECURSIVE ColumnNumber(_)
ColumnNumber(col) ==
    IF col = <<>> THEN 0
    ELSE ColumnNumber(SubSeq(col, 1, Len(col) - 1)) * 26
         + IndexIn(UpperCase, col[Len(col)])

ColToIndex(col) == ColumnNumber(col) - 1

\* int(digits)
RECURSIVE IntOf(_)
IntOf(digits) ==
    IF digits = <<>> THEN 0
    ELSE IntOf(SubSeq(digits, 1, Len(digits) - 1)) * 10
         + (IndexIn(Digits, digits[Len(digits)]) - 1)

NoKeys == [k \in {} |-> 0]

Key(present, name, value) == IF present THEN name :> value ELSE NoKeys

\* Variant: without the 'elif start_col' default for the end column.
ColumnKeysNoDefault(start_col, end_col) ==
    Key(start_col # <<>>, "startColumnIndex", ColToIndex(start_col))
    @@ Key(end_col # <<>>, "endColumnIndex", ColToIndex(end_col) + 1)

\* Variant: the end column kept as the zero-based index of the last column.
ColumnKeysInclusiveEnd(start_col, end_col) ==
    Key(start_col # <<>>, "startColumnIndex", ColToIndex(start_col))
    @@ (IF end_col # <<>> THEN "endColumnIndex" :> ColToIndex(end_col)
        ELSE Key(start_col # <<>>, "endColumnIndex", ColToIndex(start_col)))

ColumnKeys(start_col, end_col) ==
    Key(start_col # <<>>, "startColumnIndex", ColToIndex(start_col))
    @@ (IF end_col # <<>> THEN "endColumnIndex" :> (ColToIndex(end_col) + 1)
        ELSE Key(start_col # <<>>, "endColumnIndex", ColToIndex(start_col) + 1))

\* Variant: the end row kept as a zero-based inclusive index.
RowKeysInclusiveEnd(start_row, end_row) ==
    Key(start_row # <<>>, "startRowIndex", IntOf(start_row) - 1)
    @@ (IF end_row # <<>> THEN "endRowIndex" :> (IntOf(end_row) - 1)
        ELSE Key(start_row # <<>>, "endRowIndex", IntOf(start_row)))

RowKeys(start_row, end_row) ==
    Key(start_row # <<>>, "startRowIndex", IntOf(start_row) - 1)
    @@ (IF end_row # <<>> THEN "endRowIndex" :> IntOf(end_row)
        ELSE Key(start_row # <<>>, "endRowIndex", IntOf(start_row)))

InvalidA1 == [error |-> "Invalid A1 notation"]

\* Variant: every bound the text leaves out is filled with the sheet's origin.
ParseA1RangeClosed(range_str, sheet_id) ==
    LET m == MatchA1(Upper(StripSheetName(range_str)))
    IN  IF ~m.matched THEN InvalidA1
        ELSE ("sheetId" :> sheet_id)
             @@ ColumnKeys(m.start_col, m.end_col)
             @@ RowKeys(m.start_row, m.end_row)
             @@ ("startColumnIndex" :> 0) @@ ("startRowIndex" :> 0)

\* Variant: a text whose end bound precedes its start bound is refused.
ParseA1RangeOrdered(range_str, sheet_id) ==
    LET m == MatchA1(Upper(StripSheetName(range_str)))
    IN  IF \/ ~m.matched
           \/ m.matched /\ m.start_col # <<>> /\ m.end_col # <<>>
                        /\ ColToIndex(m.end_col) < ColToIndex(m.start_col)
           \/ m.matched /\ m.start_row # <<>> /\ m.end_row # <<>>
                        /\ IntOf(m.end_row) < IntOf(m.start_row)
        THEN InvalidA1
        ELSE ("sheetId" :> sheet_id)
             @@ ColumnKeys(m.start_col, m.end_col)
             @@ RowKeys(m.start_row, m.end_row)

ParseA1Range(range_str, sheet_id) ==
    LET m == MatchA1(Upper(StripSheetName(range_str)))
    IN  IF ~m.matched THEN InvalidA1
        ELSE ("sheetId" :> sheet_id)
             @@ ColumnKeys(m.start_col, m.end_col)
             @@ RowKeys(m.start_row, m.end_row)

(***************************************************************************)
(* The parser applied to bounded range texts.                              *)
(***************************************************************************)
MaxText == 5

RangeChars == {"A", "Z", "b", "1", "0", ":", "!"}

SheetIds == {0, 7}

RangeTexts == UNION {[1..n -> RangeChars] : n \in 0..MaxText}

InitA1 ==
    /\ document = <<>>
    /\ pc = "idle"
    /\ tool = "a1"
    /\ \E range_str \in RangeTexts, sheet_id \in SheetIds :
           args = [range |-> range_str, sheet_id |-> sheet_id]
    /\ doc = <<>>
    /\ located = <<>>
    /\ cell_data = <<>>
    /\ requests = <<>>
    /\ result = ""
    /\ table_info = NoTable
    /\ gets = 0
    /\ updates = 0

\* grid_range = _parse_a1_range(args['range'], args['sheet_id'])
ParseA1 ==
    /\ pc = "idle"
    /\ tool = "a1"
    /\ result' = ParseA1Range(args.range, args.sheet_id)
    /\ pc' = "done"
    /\ UNCHANGED <<document, tool, args, doc, located, cell_data, requests,
                   table_info, gets, updates>>

NextA1 == ParseA1

SpecA1 == InitA1 /\ [][NextA1]_vars

(***************************************************************************)
(* Reading a range text by its written shape: tokens of letters followed   *)
(* by digits, joined by at most one colon.                                 *)
(***************************************************************************)
AnyLetter == ElementsOf(UpperCase) \cup ElementsOf(LowerCase)

IsLetter(c) == c \in AnyLetter

IsDigit(c) == c \in ElementsOf(Digits)

IsToken(x) ==
    /\ x # <<>>
    /\ \E a \in 0..Len(x) :
           /\ \A i \in 1..a : IsLetter(x[i])
           /\ \A i \in (a + 1)..Len(x) : IsDigit(x[i])

TokenLetters(x) == SelectSeq(x, IsLetter)

TokenDigits(x) == SelectSeq(x, IsDigit)

HasLetters(x) == TokenLetters(x) # <<>>

HasDigits(x) == TokenDigits(x) # <<>>

HasColon(str) == ":" \in ElementsOf(str)

BeforeColon(str) == SubSeq(str, 1, FirstAt(str, 1, {":"}) - 1)

AfterColon(str) == SubSeq(str, FirstAt(str, 1, {":"}) + 1, Len(str))

Parsed == tool = "a1" /\ pc = "done"

Unprefixed == "!" \notin ElementsOf(args.range)

IsTwoTokens(str) ==
    /\ HasColon(str)
    /\ IsToken(BeforeColon(str))
    /\ IsToken(AfterColon(str))

IsRangeText(str) == IsToken(str) \/ IsTwoTokens(str)

TwoTokens == Unprefixed /\ IsTwoTokens(args.range)

Rectangle ==
    /\ TwoTokens
    /\ HasLetters(BeforeColon(args.range)) /\ HasDigits(BeforeColon(args.range))
    /\ HasLetters(AfterColon(args.range)) /\ HasDigits(AfterColon(args.range))

ColumnOf(token) == ColToIndex(Upper(TokenLetters(token)))

RowOf(token) == IntOf(TokenDigits(token))

\* C11: for a rectangle text '<c1><r1>:<c2><r2>' the parser returns exactly
\* sheetId, startRowIndex = r1 - 1, endRowIndex = r2, startColumnIndex =
\* index(c1) and endColumnIndex = index(c2) + 1.
C11_RectangleHalfOpen ==
    (Parsed /\ Rectangle) =>
        result = [sheetId |-> args.sheet_id,
                  startRowIndex |-> RowOf(BeforeColon(args.range)) - 1,
                  endRowIndex |-> RowOf(AfterColon(args.range)),
                  startColumnIndex |-> ColumnOf(BeforeColon(args.range)),
                  endColumnIndex |-> ColumnOf(AfterColon(args.range)) + 1]

C11_Witness ==
    /\ Parsed
    /\ args.range = <<"A", "1", ":", "Z", "1">>
    /\ Rectangle
    /\ result.startRowIndex = 0 /\ result.endRowIndex = 1
    /\ result.startColumnIndex = 0 /\ result.endColumnIndex = 26

ColumnOnly ==
    /\ TwoTokens
    /\ ~HasDigits(BeforeColon(args.range))
    /\ ~HasDigits(AfterColon(args.range))

RowOnly ==
    /\ TwoTokens
    /\ ~HasLetters(BeforeColon(args.range))
    /\ ~HasLetters(AfterColon(args.range))

\* C12: a column-only range '<c1>:<c2>' yields only the two column fields
\* and a row-only range '<r1>:<r2>' only startRowIndex = r1 - 1 and
\* endRowIndex = r2; the fields of the other axis are absent.
C12_OpenFormsStayOpen ==
    Parsed =>
        /\ ColumnOnly =>
               result = [sheetId |-> args.sheet_id,
                         startColumnIndex |-> ColumnOf(BeforeColon(args.range)),
                         endColumnIndex |-> ColumnOf(AfterColon(args.range)) + 1]
        /\ RowOnly =>
               result = [sheetId |-> args.sheet_id,
                         startRowIndex |-> RowOf(BeforeColon(args.range)) - 1,
                         endRowIndex |-> RowOf(AfterColon(args.range))]

C12_Witness ==
    /\ Parsed
    /\ ColumnOnly
    /\ args.range = <<"A", ":", "Z">>
    /\ DOMAIN result = {"sheetId", "startColumnIndex", "endColumnIndex"}
    /\ result.startColumnIndex = 0 /\ result.endColumnIndex = 26

\* C13: every text without a sheet prefix that is neither one token nor two
\* tokens joined by a colon is refused with the ValueError; no GridRange is
\* returned for it.
C13_OtherFormsRejected ==
    (Parsed /\ Unprefixed /\ ~IsRangeText(args.range)) => result = InvalidA1

ColumnsReversed ==
    /\ TwoTokens
    /\ HasLetters(BeforeColon(args.range)) /\ HasLetters(AfterColon(args.range))
    /\ ColumnOf(AfterColon(args.range)) < ColumnOf(BeforeColon(args.range))

RowsReversed ==
    /\ TwoTokens
    /\ HasDigits(BeforeColon(args.range)) /\ HasDigits(AfterColon(args.range))
    /\ RowOf(AfterColon(args.range)) < RowOf(BeforeColon(args.range))

\* C14 as stated: a text whose end column precedes its start column, or
\* whose end row precedes its start row, is refused with an error.
C14_ReversedRejected ==
    (Parsed /\ (ColumnsReversed \/ RowsReversed)) => result = InvalidA1

\* C14: the order of the bounds is not checked; a text whose end bound
\* precedes its start bound yields a GridRange with the usual fields, whose
\* end index on that axis is not greater than its start index.
C14_ReversedReturned ==
    Parsed =>
        /\ ColumnsReversed =>
               /\ result # InvalidA1
               /\ result.startColumnIndex = ColumnOf(BeforeColon(args.range))
               /\ result.endColumnIndex = ColumnOf(AfterColon(args.range)) + 1
               /\ result.endColumnIndex <= result.startColumnIndex
        /\ RowsReversed =>
               /\ result # InvalidA1
               /\ result.startRowIndex = RowOf(BeforeColon(args.range)) - 1
               /\ result.endRowIndex = RowOf(AfterColon(args.range))
               /\ result.endRowIndex <= result.startRowIndex

C14_Witness ==
    /\ Parsed
    /\ ColumnsReversed
    /\ args.range = <<"Z", "1", ":", "A", "1">>
    /\ result.startColumnIndex = 25 /\ result.endColumnIndex = 1

MaxLetters == 3

NameLetters == {"A", "B", "Y", "Z"}

ColumnNames == UNION {[1..n -> NameLetters] : n \in 1..MaxLetters}

ColumnIndexes == [name \in ColumnNames |-> ColToIndex(name)]

\* Length first, then alphabetical.
ShortLexLess(x, y) ==
    \/ Len(x) < Len(y)
    \/ /\ Len(x) = Len(y)
       /\ \E i \in 1..Len(x) :
              /\ \A j \in 1..(i - 1) : x[j] = y[j]
              /\ IndexIn(UpperCase, x[i]) < IndexIn(UpperCase, y[i])

BareColumn == Unprefixed /\ IsToken(args.range) /\ ~HasDigits(args.range)

\* C15: column letters are read as bijective base 26: A is 0, Z is 25, AA is
\* 26, and against every other letter string of bounded length the index is
\* different, smaller for a string earlier in length-then-alphabetical
\* order and greater for a later one.
C15_BijectiveBase26 ==
    (Parsed /\ BareColumn) =>
        LET col == Upper(args.range)
            index == result.startColumnIndex
        IN  /\ col = <<"A">> => index = 0
            /\ col = <<"Z">> => index = 25
            /\ col = <<"A", "A">> => index = 26
            /\ \A name \in ColumnNames :
                   /\ name # col => ColumnIndexes[name] # index
                   /\ ShortLexLess(name, col) => ColumnIndexes[name] < index
                   /\ ShortLexLess(col, name) => ColumnIndexes[name] > index

C15_Witness ==
    /\ Parsed
    /\ BareColumn
    /\ args.range = <<"A", "A">>
    /\ result.startColumnIndex = 26
    /\ ColumnIndexes[<<"Z">>] = 25

SingleToken == Unprefixed /\ IsToken(args.range)

\* C16: for a single token without a colon each axis the token names gets
\* end = start + 1, and the result equals that of the token written twice
\* around a colon.
C16_SingleTokenIsUnitRange ==
    (Parsed /\ SingleToken) =>
        /\ result # InvalidA1
        /\ HasLetters(args.range) =>
               /\ {"startColumnIndex", "endColumnIndex"} \subseteq DOMAIN result
               /\ result.endColumnIndex = result.startColumnIndex + 1
        /\ HasDigits(args.range) =>
               /\ {"startRowIndex", "endRowIndex"} \subseteq DOMAIN result
               /\ result.endRowIndex = result.startRowIndex + 1
        /\ result = ParseA1Range(args.range \o <<":">> \o args.range, args.sheet_id)

C16_Witness ==
    /\ Parsed
    /\ SingleToken
    /\ args.range = <<"Z", "1", "0">>
    /\ result = [sheetId |-> args.sheet_id, startRowIndex |-> 9, endRowIndex |-> 10,
                 startColumnIndex |-> 25, endColumnIndex |-> 26]

Prefixed == "!" \in ElementsOf(args.range)

LastBang(str) == CHOOSE p \in 1..Len(str) :
                     str[p] = "!" /\ \A q \in (p + 1)..Len(str) : str[q] # "!"

\* The sheet name and the range of a text 'N!X', X holding no '!'.
SheetNameOf(str) == SubSeq(str, 1, LastBang(str) - 1)

RangeOf(str) == SubSeq(str, LastBang(str) + 1, Len(str))

\* C17: for a text 'N!X' with X a single token or two tokens joined by a
\* colon and N any sheet name, the result is that of X alone and its
\* sheetId is the id argument.
C17_PrefixIgnored ==
    (Parsed /\ Prefixed /\ IsRangeText(RangeOf(args.range))) =>
        /\ result = ParseA1Range(RangeOf(args.range), args.sheet_id)
        /\ result.sheetId = args.sheet_id

\* Two tokens whose end token names no axis that the start token leaves out.
OpenEnded ==
    /\ TwoTokens
    /\ HasLetters(AfterColon(args.range)) => HasLetters(BeforeColon(args.range))
    /\ HasDigits(AfterColon(args.range)) => HasDigits(BeforeColon(args.range))

\* C18: for two tokens joined by a colon, each bound field is present
\* exactly when its token names it: the end fields follow the end token and
\* the start fields the start token.
C18_FieldsFollowTokens ==
    (Parsed /\ OpenEnded) =>
        /\ "startColumnIndex" \in DOMAIN result <=> HasLetters(BeforeColon(args.range))
        /\ "startRowIndex" \in DOMAIN result <=> HasDigits(BeforeColon(args.range))
        /\ "endColumnIndex" \in DOMAIN result <=> HasLetters(AfterColon(args.range))
        /\ "endRowIndex" \in DOMAIN result <=> HasDigits(AfterColon(args.range))

(***************************************************************************)
(* The request group of a target that is only inserted.                    *)
(***************************************************************************)
NoBody(k) == located[k].end <= located[k].start + 1

InsertOnly(k) == Found(k) /\ (NoBody(k) \/ ~args.replace_existing)

Planned == Writing /\ pc = "submit"

DeletesAt(s) ==
    {i \in 1..Len(requests) :
        requests[i].kind = "deleteContentRange" /\ requests[i].startIndex = s}

InsertsAt(s) ==
    {i \in 1..Len(requests) : requests[i].kind = "insertText" /\ requests[i].index = s}

FoundAt(s) == {j \in 1..Len(located) : Found(j) /\ located[j].start = s}

\* C19: for a located target whose snapshot range has end <= start + 1, or
\* when replace_existing is false, the request list holds the insertText of
\* the target's text at its start, as many insertText at that start as
\* targets located there, and no deleteContentRange starting there.
C19_InsertOnlyGroup ==
    Planned =>
        \A k \in 1..Len(located) :
            InsertOnly(k) =>
                /\ DeletesAt(located[k].start) = {}
                /\ \E i \in 1..Len(requests) :
                       requests[i] = InsertText(located[k].start, Asked[k].text)
                /\ Cardinality(InsertsAt(located[k].start))
                       = Cardinality(FoundAt(located[k].start))

C19_Witness ==
    /\ Planned
    /\ tool = "bulk"
    /\ args.replace_existing
    /\ \E k, j \in 1..Len(located) :
           /\ InsertOnly(k) /\ NoBody(k)
           /\ Found(j) /\ ~NoBody(j)
           /\ DeletesAt(located[j].start) # {}
           /\ DeletesAt(located[k].start) = {}

(***************************************************************************)
(* write_table_bulk with its documents().get and its planning as separate  *)
(* steps, while another client of the service edits the same document.     *)
(***************************************************************************)
MaxRaceCells == 2

\* Lists of one to MaxRaceCells cells of the grid under the table's anchor,
\* and lists of one cell under the offset after it.
RaceInputs(d) ==
    {[table_start_index |-> TableStartOf(d), cells |-> cells, replace_existing |-> rep] :
        cells \in UNION {BulkCellListsOf(n, GridPositions) : n \in 1..MaxRaceCells},
        rep \in BOOLEAN}
    \cup
    {[table_start_index |-> TableStartOf(d) + 1, cells |-> cells, replace_existing |-> rep] :
        cells \in BulkCellListsOf(1, GridPositions), rep \in BOOLEAN}

\* Edits of another client: a character typed or removed before the table,
\* a character typed into the first cell.
EditRequests(d) ==
    {InsertText(1, <<"e">>), DeleteContentRange(1, 2),
     InsertText(TableStartOf(d) + 3, <<"e">>)}

ExternalEdits(d) ==
    {ApplyRequest(d, r) : r \in {q \in EditRequests(d) : RequestValid(d, q)}}

\* Variant: the cells are looked up in the document as it is when planning.
LiveDocument(snapshot, live) == live

\* The document the lookups are given: the one read at the start.
PlanningDocument(snapshot, live) == snapshot

InitRace == Init

\* doc = documents().get(...).execute()
BulkGet ==
    /\ pc = "idle"
    /\ \E a \in RaceInputs(document) : args' = a
    /\ tool' = "bulk"
    /\ doc' = document
    /\ gets' = gets + 1
    /\ pc' = "planning"
    /\ UNCHANGED <<document, located, cell_data, requests, result, table_info, updates>>

\* From the first lookup to the request list.
BulkPlan ==
    /\ pc = "planning"
    /\ LET plan == WriteTableBulkPlan(Structure(PlanningDocument(doc, document)), args)
       IN  /\ located' = plan.found
           /\ cell_data' = plan.cell_data
           /\ requests' = plan.requests
           /\ result' = plan.result
           /\ pc' = IF plan.result = "" THEN "submit" ELSE "done"
    /\ UNCHANGED <<document, tool, args, doc, table_info, gets, updates>>

ExternalEdit ==
    /\ pc \in {"planning", "submit"}
    /\ document = doc
    /\ \E edited \in ExternalEdits(document) : document' = edited
    /\ UNCHANGED <<pc, tool, args, doc, located, cell_data, requests, result,
                   table_info, gets, updates>>

NextRace ==
    \/ BulkGet
    \/ ExternalEdit
    \/ BulkPlan
    \/ BatchUpdate
    \/ BatchUpdateFails

SpecRace == InitRace /\ [][NextRace]_vars

ReadsOnce ==
    /\ gets' # gets => pc = "idle" /\ gets = 0 /\ gets' = 1 /\ doc' = document
    /\ pc # "idle" => doc' = doc

PlansFromSnapshot ==
    (pc = "planning" /\ pc' # "planning") =>
        /\ located' = Lookups(Structure(doc), args.table_start_index, args.cells)
        /\ result' # "" => requests' = <<>> /\ pc' = "done"
        /\ result' = "" =>
               /\ requests' = BulkRequests(SortDescending(CollectCellData(args.cells, located')),
                                           args.replace_existing)
               /\ pc' = "submit"

SubmitsOnce ==
    updates' # updates =>
        /\ pc = "submit" /\ pc' = "done"
        /\ updates = 0 /\ updates' = 1
        /\ requests' = requests
        /\ result' = OkBulk => document' = ApplyAll(document, requests).document

\* C20: a write_table_bulk call reads the document once, before planning;
\* every lookup is made in that snapshot; the request list planned from it
\* goes unchanged into at most one batchUpdate; the document is never read
\* again.
C20_OneSnapshotOneSubmit ==
    [][ReadsOnce /\ PlansFromSnapshot /\ SubmitsOnce]_vars

C20_Witness ==
    /\ pc = "done"
    /\ result = OkBulk
    /\ gets = 1 /\ updates = 1
    /\ Len(requests) >= 3
    /\ located = Lookups(Structure(doc), args.table_start_index, args.cells)
    /\ document # ApplyAll(doc, requests).document

\* C21: when the batchUpdate of write_table_cell or write_table_bulk fails
\* with an API error, the tool call ends with the 'Google API error' text as
\* its result, after one documents().get and one batchUpdate; no call is
\* made after the failed one.
C21_ApiErrorSurfacedOnce ==
    Writing =>
        /\ gets = 1
        /\ updates <= 1
        /\ result = ErrApi => pc = "done" /\ updates = 1
        /\ updates = 1 => pc = "done" /\ result \in {ErrApi, OkCell, OkBulk}

C21_Witness ==
    /\ Writing
    /\ pc = "done"
    /\ result = ErrApi
    /\ gets = 1 /\ updates = 1
    /\ document = doc
    /\ ApplyAll(document, requests).ok

(***************************************************************************)
(* The document while the planned batch is being applied.                  *)
(***************************************************************************)
BulkPlanned == tool = "bulk" /\ pc = "submit"

\* The requests that precede the group of the k-th entry of cell_data.
RequestsBefore(k) ==
    LET first == Min({i \in 1..Len(requests) :
                         ReqStart(requests[i]) = cell_data[k].start_idx})
    IN  SubSeq(requests, 1, first - 1)

\* C22: for pairwise-disjoint targets with distinct starts, when the group
\* of a target [s, e) is about to be applied, after the groups of all higher
\* targets, the offsets [0, e) of the document hold the characters they
\* hold in the snapshot.
C22_PrefixStable ==
    (BulkPlanned /\ DisjointTargets) =>
        \A k \in 1..Len(cell_data) :
            LET before == ApplyAll(doc, RequestsBefore(k))
            IN  /\ before.ok
                /\ SubSeq(before.document, 1, cell_data[k].end_idx)
                       = SubSeq(doc, 1, cell_data[k].end_idx)

C22_Witness ==
    /\ BulkPlanned /\ DisjointTargets
    /\ args.replace_existing
    /\ Len(cell_data) = 3
    /\ Len(requests) = 6
    /\ Len(ApplyAll(doc, RequestsBefore(3)).document) # Len(doc)
    /\ SubSeq(ApplyAll(doc, RequestsBefore(3)).document, 1, cell_data[3].end_idx)
           = SubSeq(doc, 1, cell_data[3].end_idx)

ListOrders == [n \in 0..MaxCells |->
                    {f \in [1..n -> 1..n] : \A i, j \in 1..n : f[i] = f[j] => i = j}]

Permuted(seq, f) == [i \in 1..Len(seq) |-> seq[f[i]]]

\* The request list write_table_bulk builds for the cells in the order f.
RequestsFor(f) ==
    BulkRequests(SortDescending(CollectCellData(Permuted(args.cells, f),
                                                Permuted(located, f))),
                 args.replace_existing)

\* C23: for located cells with pairwise distinct starts, every order of the
\* 'cells' list yields the request list of the call.
C23_OrderIndependent ==
    (BulkPlanned /\ DisjointTargets) =>
        \A f \in ListOrders[Len(args.cells)] : RequestsFor(f) = requests

C23_Witness ==
    /\ BulkPlanned /\ DisjointTargets
    /\ Len(cell_data) = 3
    /\ located[1].start < located[2].start
    /\ located[3].start < located[2].start
    /\ \E f \in ListOrders[3] :
           /\ f[1] = 2 /\ f[2] = 3 /\ f[3] = 1
           /\ RequestsFor(f) = requests

(***************************************************************************)
(* The batch of a snapshot that is no longer the document.                 *)
(***************************************************************************)
Stale == BulkPlanned /\ document # doc

PlannedFrom(snapshot) ==
    BulkRequests(SortDescending(CollectCellData(args.cells,
                     Lookups(Structure(snapshot), args.table_start_index, args.cells))),
                 args.replace_existing)

\* C24: when the document has changed since the documents().get, the batch
\* planned from the snapshot is what is submitted, unchanged: the service
\* applies that list to the document as it now is, and the handler makes no
\* other read.
C24_StaleBatchSubmitted ==
    [][(Stale /\ updates' # updates) =>
           /\ requests = PlannedFrom(doc)
           /\ requests' = requests
           /\ gets' = gets
           /\ result' \in {OkBulk, ErrApi}
           /\ result' = OkBulk => document' = ApplyAll(document, requests).document]_vars

\* A write accepted by the service whose text is at the planned offset but
\* not at the start of the cell's content, which the other client's edit
\* has moved.
C24_Witness ==
    /\ tool = "bulk" /\ pc = "done" /\ result = OkBulk
    /\ Len(cell_data) = 1
    /\ document # ApplyAll(doc, requests).document
    /\ SubSeq(document, cell_data[1].start_idx + 1,
              cell_data[1].start_idx + Len(cell_data[1].text)) = cell_data[1].text
    /\ CellStart(document, cell_data[1].row, cell_data[1].column) # cell_data[1].start_idx
    /\ CellTokens(document, cell_data[1].row, cell_data[1].column)
           # cell_data[1].text \o CellTokens(doc, cell_data[1].row, cell_data[1].column)

\* C25: a lookup on the anchored table with row_index outside 0..rows-1 or
\* column_index outside 0..columns-1, negative indexes included, returns
\* (None, None): never a range, never an exception.
C25_OutsideGridIsNone ==
    (Writing /\ IsTableStart(doc, args.table_start_index)) =>
        \A k \in 1..Len(located) :
            ~InGrid(doc, Asked[k].row, Asked[k].column) => located[k] = NonePair

(***************************************************************************)
(* One write_table_cell call per cell, each reading the document the       *)
(* earlier calls left.                                                     *)
(***************************************************************************)
SingleCellArgs(cell) ==
    [table_start_index |-> args.table_start_index, row_index |-> cell.row,
     column_index |-> cell.column, text |-> cell.text,
     replace_existing |-> args.replace_existing]

\* [ok, document]: ok while every call located its cell and was accepted.
RECURSIVE SingleWrites(_, _)
SingleWrites(d, cells) ==
    IF cells = <<>> THEN [ok |-> TRUE, document |-> d]
    ELSE LET plan == WriteTableCellPlan(Structure(d), SingleCellArgs(Head(cells)))
             out == ApplyAll(d, plan.requests)
         IN  IF plan.result # "" \/ ~out.ok THEN [ok |-> FALSE, document |-> d]
             ELSE SingleWrites(out.document, Tail(cells))

AllLocated == \A k \in 1..Len(located) : Found(k)

\* C26: for distinct cells of one table that are all located, the document
\* the bulk batch produces is the document that one write_table_cell call
\* per cell produces, in every order of the calls, with the same
\* table_start_index and replace_existing.
C26_BulkIsRepeatedSingle ==
    (BulkPlanned /\ DisjointTargets /\ AllLocated) =>
        LET bulk == ApplyAll(doc, requests)
        IN  /\ bulk.ok
            /\ \A f \in ListOrders[Len(args.cells)] :
                   SingleWrites(doc, Permuted(args.cells, f)) = bulk

C26_Witness ==
    /\ BulkPlanned /\ DisjointTargets /\ AllLocated
    /\ Len(args.cells) = 3
    /\ ~args.replace_existing
    /\ located[1].start < located[2].start
    /\ SingleWrites(doc, args.cells).ok
    /\ SingleWrites(doc, args.cells).document = ApplyAll(doc, requests).document
    /\ SingleWrites(doc, args.cells).document # doc

(***************************************************************************)
(* The document outside the target bodies.  A region [from, to) of offsets *)
(* is replaced by one mark; regions are taken from the highest start down, *)
(* so that the offsets of the lower ones stay as they are.                 *)
(***************************************************************************)
ReplaceRegion(d, from, to) == SubSeq(d, 1, from) \o <<"#">> \o SubSeq(d, to + 1, Len(d))

BodyLen(t) == IF t.end_idx > t.start_idx + 1 THEN t.end_idx - 1 - t.start_idx ELSE 0

\* Length of what stands in place of the body after the write.
WrittenLen(t) ==
    Len(t.text) + (IF args.replace_existing THEN 0 ELSE BodyLen(t))

RECURSIVE ShiftOf(_)
ShiftOf(data) ==
    IF data = <<>> THEN 0
    ELSE WrittenLen(Head(data)) - BodyLen(Head(data)) + ShiftOf(Tail(data))

\* The snapshot with the body [s, e - 1) of every target marked.
RECURSIVE OutsideBodies(_, _)
OutsideBodies(d, data) ==
    IF data = <<>> THEN d
    ELSE OutsideBodies(ReplaceRegion(d, Head(data).start_idx,
                                     Head(data).start_idx + BodyLen(Head(data))),
                       Tail(data))

\* The written document with what stands in place of every body marked.
RECURSIVE OutsideWritten(_, _)
OutsideWritten(d, data) ==
    IF data = <<>> THEN d
    ELSE LET from == Head(data).start_idx + ShiftOf(Tail(data))
         IN  OutsideWritten(ReplaceRegion(d, from, from + WrittenLen(Head(data))),
                            Tail(data))

\* C27: for pairwise-disjoint targets with distinct starts, the batch is
\* accepted and every character of the snapshot outside the bodies
\* [s, e - 1) of the located targets is in the written document, unchanged
\* and in the same order.
C27_FrameOutsideBodies ==
    (BulkPlanned /\ DisjointTargets) =>
        LET out == ApplyAll(doc, requests)
        IN  /\ out.ok
            /\ OutsideWritten(out.document, cell_data) = OutsideBodies(doc, cell_data)

C27_Witness ==
    /\ BulkPlanned /\ DisjointTargets
    /\ args.replace_existing
    /\ Len(cell_data) = 2
    /\ BodyLen(cell_data[1]) = 2 /\ BodyLen(cell_data[2]) = 0
    /\ Len(ApplyAll(doc, requests).document) # Len(doc)
    /\ OutsideWritten(ApplyAll(doc, requests).document, cell_data)
           = OutsideBodies(doc, cell_data)

(***************************************************************************)
(* write_table_bulk on short lists whose indexes may be negative.          *)
(***************************************************************************)
WidePositions == {<<-3, 0>>, <<-1, 0>>, <<-1, -1>>, <<0, 0>>, <<1, 1>>, <<2, 0>>, <<0, 2>>}

WideInputs(d) ==
    {[table_start_index |-> tsi, cells |-> cells, replace_existing |-> rep] :
        tsi \in {TableStartOf(d), TableStartOf(d) + 1},
        cells \in UNION {BulkCellListsOf(n, WidePositions) : n \in 0..2},
        rep \in BOOLEAN}

WriteTableBulkWide ==
    /\ pc = "idle"
    /\ \E a \in WideInputs(document) :
        LET plan == WriteTableBulkPlan(Structure(document), a)
        IN  /\ tool' = "bulk"
            /\ args' = a
            /\ doc' = document
            /\ gets' = gets + 1
            /\ located' = plan.found
            /\ cell_data' = plan.cell_data
            /\ requests' = plan.requests
            /\ result' = plan.result
            /\ pc' = IF plan.result = "" THEN "submit" ELSE "done"
    /\ UNCHANGED <<document, table_info, updates>>

NextWide ==
    \/ WriteTableBulkWide
    \/ BatchUpdate
    \/ BatchUpdateFails

SpecWide == Init /\ [][NextWide]_vars

\* The cell has no place in the grid of the snapshot, or it has no content.
Unlocatable(cell) ==
    IF InGrid(doc, cell.row, cell.column)
    THEN CellTokens(doc, cell.row, cell.column) = <<>>
    ELSE TRUE

NoneLocatable ==
    \/ ~IsTableStart(doc, args.table_start_index)
    \/ \A k \in 1..Len(args.cells) : Unlocatable(args.cells[k])

\* C28: when the anchor is unknown, or every requested cell is outside the
\* grid or has no content, write_table_bulk ends with the 'Could not find
\* any of the specified table cells' error, submits no batchUpdate and
\* leaves the document as it was.
C28_NoneLocatedIsError ==
    (tool = "bulk" /\ pc # "idle" /\ NoneLocatable) =>
        /\ pc = "done"
        /\ result = ErrNoCells
        /\ requests = <<>>
        /\ updates = 0
        /\ document = doc

(***************************************************************************)
(* format_cells: the range is parsed, one repeatCell request is built and  *)
(* sent to spreadsheets().batchUpdate.  The spreadsheet is kept as the     *)
(* list of the requests the service has applied.                           *)
(***************************************************************************)
ErrInvalidA1 == "Error: Invalid A1 notation"

OkFormat == "Formatted cells in range"

RepeatCell(grid_range) ==
    [kind |-> "repeatCell", range |-> grid_range, fields |-> "userEnteredFormat"]

\* Variant: the request is built from whatever the parser gave.
FormatCellsPlanUnchecked(a) ==
    [result |-> "", requests |-> <<RepeatCell(ParseA1Range(a.range, a.sheet_id))>>]

\* format_cells up to its batchUpdate call: [result, requests]; the
\* ValueError leaves the handler at once and call_tool returns its text.
FormatCellsPlan(a) ==
    LET grid_range == ParseA1Range(a.range, a.sheet_id)
    IN  IF grid_range = InvalidA1
        THEN [result |-> ErrInvalidA1, requests |-> <<>>]
        ELSE [result |-> "", requests |-> <<RepeatCell(grid_range)>>]

InitFormat ==
    /\ document = <<>>
    /\ pc = "idle"
    /\ tool = "format"
    /\ \E range_str \in RangeTexts, sheet_id \in SheetIds :
           args = [range |-> range_str, sheet_id |-> sheet_id]
    /\ doc = <<>>
    /\ located = <<>>
    /\ cell_data = <<>>
    /\ requests = <<>>
    /\ result = ""
    /\ table_info = NoTable
    /\ gets = 0
    /\ updates = 0

FormatCells ==
    /\ pc = "idle"
    /\ tool = "format"
    /\ LET plan == FormatCellsPlan(args)
       IN  /\ requests' = plan.requests
           /\ result' = plan.result
           /\ pc' = IF plan.result = "" THEN "submit" ELSE "done"
    /\ UNCHANGED <<document, tool, args, doc, located, cell_data, table_info,
                   gets, updates>>

\* spreadsheets().batchUpdate is executed by the service.
SheetsBatchUpdate ==
    /\ pc = "submit"
    /\ tool = "format"
    /\ document' = document \o requests
    /\ result' = OkFormat
    /\ updates' = updates + 1
    /\ pc' = "done"
    /\ UNCHANGED <<tool, args, doc, located, cell_data, requests, table_info, gets>>

\* spreadsheets().batchUpdate fails (HttpError).
SheetsBatchUpdateFails ==
    /\ pc = "submit"
    /\ tool = "format"
    /\ result' = ErrApi
    /\ updates' = updates + 1
    /\ pc' = AfterApiError
    /\ UNCHANGED <<document, tool, args, doc, located, cell_data, requests,
                   table_info, gets>>

NextFormat ==
    \/ FormatCells
    \/ SheetsBatchUpdate
    \/ SheetsBatchUpdateFails

SpecFormat == InitFormat /\ [][NextFormat]_vars

Rejected == ParseA1Range(args.range, args.sheet_id) = InvalidA1

\* C29: when the parser rejects the range text of a format_cells call, the
\* call ends with the error text as its result, no request is built, no
\* spreadsheets().batchUpdate is issued and the spreadsheet is unchanged.
C29_RejectedRangeSendsNothing ==
    (tool = "format" /\ pc # "idle" /\ Rejected) =>
        /\ pc = "done"
        /\ result = ErrInvalidA1
        /\ requests = <<>>
        /\ updates = 0
        /\ document = <<>>

C29_Witness ==
    /\ tool = "format" /\ pc = "done"
    /\ args.range = <<"A", "1", ":", ":", "Z">>
    /\ Rejected
    /\ result = ErrInvalidA1
    /\ updates = 0 /\ document = <<>>

\* One token or two tokens joined by a colon, no sheet prefix, every row
\* number at least 1, and no end bound before its start bound.
Ordered ==
    /\ Unprefixed
    /\ IsRangeText(args.range)
    /\ ~ColumnsReversed /\ ~RowsReversed
    /\ HasColon(args.range) =>
           /\ HasDigits(BeforeColon(args.range)) => RowOf(BeforeColon(args.range)) >= 1
           /\ HasDigits(AfterColon(args.range)) => RowOf(AfterColon(args.range)) >= 1
    /\ (~HasColon(args.range) /\ HasDigits(args.range)) => RowOf(args.range) >= 1

BothPresent(first, second) == {first, second} \subseteq DOMAIN result

\* C30: the GridRange returned for a text whose end bounds are not before
\* its start bounds, with row numbers from 1, is a non-empty half-open
\* range: with both column fields present endColumnIndex > startColumnIndex
\* >= 0, with both row fields present endRowIndex > startRowIndex >= 0.
C30_NonEmptyHalfOpen ==
    (Parsed /\ Ordered) =>
        /\ result # InvalidA1
        /\ BothPresent("startColumnIndex", "endColumnIndex") =>
               /\ result.endColumnIndex > result.startColumnIndex
               /\ result.startColumnIndex >= 0
        /\ BothPresent("startRowIndex", "endRowIndex") =>
               /\ result.endRowIndex > result.startRowIndex
               /\ result.startRowIndex >= 0

C30_Witness ==
    /\ Parsed /\ Ordered
    /\ args.range = <<"Z", "1", ":", "Z", "1">>
    /\ BothPresent("startColumnIndex", "endColumnIndex")
    /\ BothPresent("startRowIndex", "endRowIndex")
    /\ result.startColumnIndex = 25 /\ result.endColumnIndex = 26
    /\ result.startRowIndex = 0 /\ result.endRowIndex = 1

====
